---- MODULE Spec2Model ----
(***************************************************************************)
(* ConfigManager (src/mycongif.py): an INI configuration held in a         *)
(* configparser.ConfigParser, with load, save and CRUD operations.         *)
(*                                                                         *)
(* A Python str is a sequence of one-character strings.  An ordered dict   *)
(* is a sequence of <<key, value>> pairs with unique keys.  The parser     *)
(* object is the record [sections, defaults]: `sections` is the ordered    *)
(* dict of named sections, `defaults` the options of the DEFAULT section.  *)
(***************************************************************************)
EXTENDS Integers, Sequences, FiniteSets, TLC

VARIABLES
    config,     \* self.config: [sections, defaults]
    file,       \* the file at self.config_file_path: [exists, text]
    op,         \* the last call made on the manager and its arguments
    ret,        \* what that call returned or raised
    printed,    \* the diagnostics that call printed, in order
    saved       \* history: the configuration the file was last saved from

vars == <<config, file, op, ret, printed, saved>>

----------------------------------------------------------------------------
(* Python strings *)

UpperCase == <<"A","B","C","D","E","F","G","H","I","J","K","L","M",
               "N","O","P","Q","R","S","T","U","V","W","X","Y","Z">>
LowerCase == <<"a","b","c","d","e","f","g","h","i","j","k","l","m",
               "n","o","p","q","r","s","t","u","v","w","x","y","z">>
Digits == <<"0","1","2","3","4","5","6","7","8","9">>

Whitespace == {" ", "\t", "\n"}

LowerChar(c) ==
    IF \E i \in 1..26 : UpperCase[i] = c
    THEN LowerCase[CHOOSE i \in 1..26 : UpperCase[i] = c]
    ELSE c

\* str.lower()
lower(s) == [i \in 1..Len(s) |-> LowerChar(s[i])]

\* str.find(c, from): 1-based index of the first c at or after `from`, 0 if none
FindFrom(s, c, from) ==
    IF \E i \in from..Len(s) : s[i] = c
    THEN CHOOSE i \in from..Len(s) : s[i] = c /\ \A j \in from..(i-1) : s[j] # c
    ELSE 0

Find(s, c) == FindFrom(s, c, 1)

\* str.rfind(c)
RFind(s, c) ==
    IF \E i \in 1..Len(s) : s[i] = c
    THEN CHOOSE i \in 1..Len(s) : s[i] = c /\ \A j \in (i+1)..Len(s) : s[j] # c
    ELSE 0

\* s[i:] with a 1-based i
From(s, i) == SubSeq(s, i, Len(s))

\* index of the first non-whitespace character, Len(s)+1 if there is none
FirstNonSpace(s) ==
    IF \E i \in 1..Len(s) : s[i] \notin Whitespace
    THEN CHOOSE i \in 1..Len(s) :
            s[i] \notin Whitespace /\ \A j \in 1..(i-1) : s[j] \in Whitespace
    ELSE Len(s) + 1

\* index of the last non-whitespace character, 0 if there is none
LastNonSpace(s) ==
    IF \E i \in 1..Len(s) : s[i] \notin Whitespace
    THEN CHOOSE i \in 1..Len(s) :
            s[i] \notin Whitespace /\ \A j \in (i+1)..Len(s) : s[j] \in Whitespace
    ELSE 0

rstrip(s) == SubSeq(s, 1, LastNonSpace(s))
strip(s) == SubSeq(s, FirstNonSpace(s), LastNonSpace(s))

RECURSIVE IntToStr(_)
\* str(n) for an int n >= 0
IntToStr(n) ==
    IF n < 10 THEN <<Digits[n + 1]>>
    ELSE IntToStr(n \div 10) \o <<Digits[(n % 10) + 1]>>

\* caller values: a str or an int
PyStr(s) == [t |-> "str", s |-> s, n |-> 0]
PyInt(n) == [t |-> "int", s |-> <<>>, n |-> n]

\* str(value), as add_key applies it
str(value) == IF value.t = "int" THEN IntToStr(value.n) ELSE value.s

RECURSIVE Join(_, _)
\* sep.join(parts)
Join(parts, sep) ==
    IF parts = <<>> THEN <<>>
    ELSE IF Len(parts) = 1 THEN parts[1]
    ELSE parts[1] \o sep \o Join(Tail(parts), sep)

RECURSIVE SplitLines(_)
\* iterating a text file: the lines, each with its line end
SplitLines(text) ==
    IF text = <<>> THEN <<>>
    ELSE LET p == Find(text, "\n") IN
         IF p = 0 THEN <<text>>
         ELSE <<SubSeq(text, 1, p)>> \o SplitLines(From(text, p + 1))

RECURSIVE ReplaceNewlines(_)
\* value.replace('\n', '\n\t')
ReplaceNewlines(s) ==
    IF s = <<>> THEN <<>>
    ELSE IF Head(s) = "\n" THEN <<"\n", "\t">> \o ReplaceNewlines(Tail(s))
    ELSE <<Head(s)>> \o ReplaceNewlines(Tail(s))

----------------------------------------------------------------------------
(* Python dict, insertion ordered *)

DictHas(d, k) == \E i \in 1..Len(d) : d[i][1] = k
DictGet(d, k) == d[CHOOSE i \in 1..Len(d) : d[i][1] = k][2]
DictKeys(d) == [i \in 1..Len(d) |-> d[i][1]]

\* d[k] = v: an existing key keeps its position
DictSet(d, k, v) ==
    IF DictHas(d, k)
    THEN [i \in 1..Len(d) |-> IF d[i][1] = k THEN <<k, v>> ELSE d[i]]
    ELSE Append(d, <<k, v>>)

\* del d[k]
DictDel(d, k) == SelectSeq(d, LAMBDA e : e[1] # k)

RECURSIVE DictUpdate(_, _)
\* d.update(e)
DictUpdate(d, e) ==
    IF e = <<>> THEN d
    ELSE DictUpdate(DictSet(d, Head(e)[1], Head(e)[2]), Tail(e))

----------------------------------------------------------------------------
(* configparser.ConfigParser, as ConfigManager constructs it: strict,      *)
(* BasicInterpolation, delimiters = and :, comment prefixes # and ;        *)

DEFAULTSECT == <<"D","E","F","A","U","L","T">>
MAX_INTERPOLATION_DEPTH == 10

EmptyConfig == [sections |-> <<>>, defaults |-> <<>>]

\* a faulty optionxform: the option name is kept as written
optionxform_as_written(optionstr) == optionstr

optionxform(optionstr) == lower(optionstr)

SectionNames(c) == [i \in 1..Len(c.sections) |-> c.sections[i][1]]

has_section(c, section) == DictHas(c.sections, section)

\* a call's outcome on a value: ok with val, or the exception raised
Ok(v) == [ok |-> TRUE, val |-> v, err |-> ""]
Err(e) == [ok |-> FALSE, val |-> <<>>, err |-> e]

\* re.match(r"%\(([^)]+)\)s", rest): the index of the closing s, 0 if no match
KeyRefEnd(rest) ==
    LET q == Find(rest, ")") IN
    IF /\ Len(rest) >= 5
       /\ rest[1] = "%"
       /\ rest[2] = "("
       /\ q > 3
       /\ q < Len(rest)
       /\ rest[q + 1] = "s"
    THEN q + 1
    ELSE 0

RECURSIVE DropEscapes(_)
\* value.replace('%%', '')
DropEscapes(s) ==
    IF Len(s) < 2 THEN s
    ELSE IF s[1] = "%" /\ s[2] = "%" THEN DropEscapes(From(s, 3))
    ELSE <<s[1]>> \o DropEscapes(Tail(s))

RECURSIVE DropKeyRefs(_)
\* _KEYCRE.sub('', value)
DropKeyRefs(s) ==
    IF s = <<>> THEN <<>>
    ELSE IF KeyRefEnd(s) > 0 THEN DropKeyRefs(From(s, KeyRefEnd(s) + 1))
    ELSE <<s[1]>> \o DropKeyRefs(Tail(s))

\* BasicInterpolation.before_set: TRUE when the value is accepted
before_set(value) == Find(DropKeyRefs(DropEscapes(value)), "%") = 0

RECURSIVE interpolate_some(_, _, _)
RECURSIVE interpolate_loop(_, _, _)
\* BasicInterpolation._interpolate_some: the while loop over `rest`
interpolate_loop(rest, map, depth) ==
    IF rest = <<>> THEN Ok(<<>>)
    ELSE
    LET p == Find(rest, "%") IN
    IF p = 0 THEN Ok(rest)
    ELSE
    LET head == SubSeq(rest, 1, p - 1)
        r == From(rest, p)
        c == IF Len(r) >= 2 THEN r[2] ELSE ""
    IN
    IF c = "%" THEN
        LET more == interpolate_loop(From(r, 3), map, depth) IN
        IF more.ok THEN Ok(head \o <<"%">> \o more.val) ELSE more
    ELSE IF c = "(" THEN
        LET m == KeyRefEnd(r) IN
        IF m = 0 THEN Err("InterpolationSyntaxError")
        ELSE
        LET var == optionxform(SubSeq(r, 3, m - 2)) IN
        IF ~DictHas(map, var) THEN Err("InterpolationMissingOptionError")
        ELSE
        LET v == DictGet(map, var)
            sub == IF Find(v, "%") > 0
                   THEN interpolate_some(v, map, depth + 1)
                   ELSE Ok(v)
        IN
        IF ~sub.ok THEN sub
        ELSE
        LET more == interpolate_loop(From(r, m + 1), map, depth) IN
        IF more.ok THEN Ok(head \o sub.val \o more.val) ELSE more
    ELSE Err("InterpolationSyntaxError")

interpolate_some(rest, map, depth) ==
    IF depth > MAX_INTERPOLATION_DEPTH THEN Err("InterpolationDepthError")
    ELSE interpolate_loop(rest, map, depth)

\* BasicInterpolation.before_get
before_get(value, map) == interpolate_some(value, map, 1)

\* the options a lookup in `section` sees: its own, then the defaults
unify_values(c, section) ==
    DictUpdate(c.defaults,
               IF has_section(c, section) THEN DictGet(c.sections, section) ELSE <<>>)

\* ConfigParser.get(section, option)
get(c, section, option) ==
    IF ~has_section(c, section) /\ section # DEFAULTSECT THEN Err("NoSectionError")
    ELSE
    LET d == unify_values(c, section)
        o == optionxform(option)
    IN
    IF ~DictHas(d, o) THEN Err("NoOptionError")
    ELSE before_get(DictGet(d, o), d)

RECURSIVE InterpolateAll(_, _)
\* [(option, before_get(d[option])) for option in keys]
InterpolateAll(keys, d) ==
    IF keys = <<>> THEN Ok(<<>>)
    ELSE
    LET v == before_get(DictGet(d, Head(keys)), d) IN
    IF ~v.ok THEN v
    ELSE
    LET more == InterpolateAll(Tail(keys), d) IN
    IF more.ok THEN Ok(<<<<Head(keys), v.val>>>> \o more.val) ELSE more

\* ConfigParser.items(section)
items(c, section) ==
    IF ~has_section(c, section) /\ section # DEFAULTSECT THEN Err("NoSectionError")
    ELSE
    LET d == unify_values(c, section) IN
    InterpolateAll(DictKeys(d), d)

\* ConfigParser.has_option(section, option)
has_option(c, section, option) ==
    IF section = <<>> \/ section = DEFAULTSECT
    THEN DictHas(c.defaults, optionxform(option))
    ELSE IF ~has_section(c, section) THEN FALSE
    ELSE \/ DictHas(DictGet(c.sections, section), optionxform(option))
         \/ DictHas(c.defaults, optionxform(option))

\* ConfigParser.add_section(section), after has_section was False
add_section(c, section) ==
    IF section = DEFAULTSECT THEN Err("ValueError")
    ELSE IF has_section(c, section) THEN Err("DuplicateSectionError")
    ELSE Ok([c EXCEPT !.sections = Append(@, <<section, <<>>>>)])

\* a faulty set: the option is deleted and inserted again, at the end
set_reinserting(c, section, option, value) ==
    IF value # <<>> /\ ~before_set(value) THEN Err("ValueError")
    ELSE IF section = <<>> \/ section = DEFAULTSECT
    THEN Ok([c EXCEPT !.defaults = Append(DictDel(@, optionxform(option)),
                                          <<optionxform(option), value>>)])
    ELSE IF ~has_section(c, section) THEN Err("NoSectionError")
    ELSE Ok([c EXCEPT !.sections =
                DictSet(@, section,
                        Append(DictDel(DictGet(c.sections, section), optionxform(option)),
                               <<optionxform(option), value>>))])

\* ConfigParser.set(section, option, value) with a str value
set(c, section, option, value) ==
    IF value # <<>> /\ ~before_set(value) THEN Err("ValueError")
    ELSE IF section = <<>> \/ section = DEFAULTSECT
    THEN Ok([c EXCEPT !.defaults = DictSet(@, optionxform(option), value)])
    ELSE IF ~has_section(c, section) THEN Err("NoSectionError")
    ELSE Ok([c EXCEPT !.sections =
                DictSet(@, section,
                        DictSet(DictGet(c.sections, section),
                                optionxform(option), value))])

\* ConfigParser.remove_option(section, option): [existed, config]
remove_option(c, section, option) ==
    LET o == optionxform(option) IN
    IF section = <<>> \/ section = DEFAULTSECT
    THEN [existed |-> DictHas(c.defaults, o),
          config |-> [c EXCEPT !.defaults = DictDel(@, o)]]
    ELSE LET sectdict == DictGet(c.sections, section) IN
         [existed |-> DictHas(sectdict, o),
          config |-> [c EXCEPT !.sections = DictSet(@, section, DictDel(sectdict, o))]]

\* a faulty remove_section: every section from the removed one on is dropped
remove_section_truncating(c, section) ==
    [existed |-> has_section(c, section),
     config |-> [c EXCEPT !.sections =
                    IF has_section(c, section)
                    THEN SubSeq(@, 1, (CHOOSE i \in 1..Len(@) : @[i][1] = section) - 1)
                    ELSE @]]

\* ConfigParser.remove_section(section): [existed, config]
remove_section_(c, section) ==
    [existed |-> has_section(c, section),
     config |-> [c EXCEPT !.sections = DictDel(@, section)]]

RECURSIVE write_options(_)
\* RawConfigParser._write_section: the "key = value" lines
write_options(opts) ==
    IF opts = <<>> THEN <<>>
    ELSE Head(opts)[1] \o <<" ", "=", " ">> \o ReplaceNewlines(Head(opts)[2]) \o <<"\n">>
         \o write_options(Tail(opts))

\* RawConfigParser._write_section
write_section(name, opts) ==
    <<"[">> \o name \o <<"]", "\n">> \o write_options(opts) \o <<"\n">>

RECURSIVE write_sections(_)
write_sections(sects) ==
    IF sects = <<>> THEN <<>>
    ELSE write_section(Head(sects)[1], Head(sects)[2]) \o write_sections(Tail(sects))

\* ConfigParser.write(fp): the text written
write(c) ==
    (IF c.defaults # <<>> THEN write_section(DEFAULTSECT, c.defaults) ELSE <<>>)
    \o write_sections(c.sections)

----------------------------------------------------------------------------
(* RawConfigParser._read: the parser of the file format.  While reading,   *)
(* an option's value is the list of its lines.                             *)

ReadStart ==
    [sections |-> <<>>, defaults |-> <<>>,
     in_section |-> FALSE,      \* cursect is not None
     sectname |-> <<>>,
     opt_set |-> FALSE,         \* optname is not None
     optname |-> <<>>,
     indent_level |-> 0,
     e |-> FALSE,               \* a ParsingError is pending
     added_sections |-> {}, added_options |-> {},
     raised |-> ""]

\* cursect, the dict the current header selected
cursect(ps) ==
    IF ps.sectname = DEFAULTSECT THEN ps.defaults
    ELSE DictGet(ps.sections, ps.sectname)

\* cursect[optname] = val
cursect_set(ps, optname, val) ==
    IF ps.sectname = DEFAULTSECT
    THEN [ps EXCEPT !.defaults = DictSet(@, optname, val)]
    ELSE [ps EXCEPT !.sections =
             DictSet(@, ps.sectname, DictSet(DictGet(ps.sections, ps.sectname), optname, val))]

\* the first delimiter (= or :) of a line, 0 if none
FirstDelimiter(value) ==
    LET a == Find(value, "=")
        b == Find(value, ":")
    IN IF a = 0 THEN b ELSE IF b = 0 THEN a ELSE IF a < b THEN a ELSE b

\* SECTCRE.match(value)
IsHeader(value) == Len(value) >= 3 /\ value[1] = "[" /\ RFind(value, "]") >= 3
HeaderName(value) == SubSeq(value, 2, RFind(value, "]") - 1)

\* a section header line
read_header(ps, value) ==
    LET name == HeaderName(value) IN
    IF DictHas(ps.sections, name)
    THEN IF name \in ps.added_sections
         THEN [ps EXCEPT !.raised = "DuplicateSectionError"]
         ELSE [ps EXCEPT !.in_section = TRUE, !.sectname = name, !.opt_set = FALSE,
                         !.added_sections = @ \cup {name}]
    ELSE IF name = DEFAULTSECT
    THEN [ps EXCEPT !.in_section = TRUE, !.sectname = name, !.opt_set = FALSE]
    ELSE [ps EXCEPT !.sections = Append(@, <<name, <<>>>>),
                    !.in_section = TRUE, !.sectname = name, !.opt_set = FALSE,
                    !.added_sections = @ \cup {name}]

\* an option line: OPTCRE.match(value) and what follows it
read_option(ps, value) ==
    LET i == FirstDelimiter(value) IN
    IF i = 0 THEN [ps EXCEPT !.e = TRUE]
    ELSE
    LET option == rstrip(SubSeq(value, 1, i - 1))
        optval == strip(From(value, i + 1))
        optname == optionxform(rstrip(option))
        ps1 == [ps EXCEPT !.e = @ \/ option = <<>>,
                          !.opt_set = TRUE, !.optname = optname]
    IN
    IF <<ps.sectname, optname>> \in ps.added_options
    THEN [ps1 EXCEPT !.raised = "DuplicateOptionError"]
    ELSE cursect_set([ps1 EXCEPT !.added_options = @ \cup {<<ps.sectname, optname>>}],
                     optname, <<optval>>)

\* the body of the loop over the lines
read_line(ps, line) ==
    LET stripped == strip(line)
        comment == stripped # <<>> /\ stripped[1] \in {"#", ";"}
        value == IF comment THEN <<>> ELSE stripped
        in_value == ps.in_section /\ ps.opt_set /\ ps.optname # <<>>
        cur_indent_level == FirstNonSpace(line) - 1
    IN
    IF value = <<>>
    THEN IF ~comment /\ in_value
         THEN cursect_set(ps, ps.optname, Append(DictGet(cursect(ps), ps.optname), <<>>))
         ELSE ps
    ELSE IF in_value /\ cur_indent_level > ps.indent_level
    THEN cursect_set(ps, ps.optname, Append(DictGet(cursect(ps), ps.optname), value))
    ELSE
    LET ps1 == [ps EXCEPT !.indent_level = cur_indent_level] IN
    IF IsHeader(value) THEN read_header(ps1, value)
    ELSE IF ~ps.in_section THEN [ps1 EXCEPT !.raised = "MissingSectionHeaderError"]
    ELSE read_option(ps1, value)

RECURSIVE read_lines(_, _)
read_lines(ps, lines) ==
    IF lines = <<>> \/ ps.raised # "" THEN ps
    ELSE read_lines(read_line(ps, Head(lines)), Tail(lines))

\* RawConfigParser._join_multiline_values on one dict
join_multiline_values(opts) ==
    [i \in 1..Len(opts) |-> <<opts[i][1], rstrip(Join(opts[i][2], <<"\n">>))>>]

\* ConfigParser.read on an existing file: the parser's content when the
\* call ends, and the exception it raised ("" if none)
read(text) ==
    LET ps == read_lines(ReadStart, SplitLines(text)) IN
    [config |->
        [sections |-> [i \in 1..Len(ps.sections) |->
                          <<ps.sections[i][1], join_multiline_values(ps.sections[i][2])>>],
         defaults |-> join_multiline_values(ps.defaults)],
     raised |-> IF ps.raised # "" THEN ps.raised
                ELSE IF ps.e THEN "ParsingError" ELSE ""]

----------------------------------------------------------------------------
(* Python values a call returns, and the call record *)

RNone == [kind |-> "None", s |-> <<>>, b |-> FALSE, d |-> <<>>, exc |-> ""]
RStr(x) == [kind |-> "str", s |-> x, b |-> FALSE, d |-> <<>>, exc |-> ""]
RBool(x) == [kind |-> "bool", s |-> <<>>, b |-> x, d |-> <<>>, exc |-> ""]
RDict(x) == [kind |-> "dict", s |-> <<>>, b |-> FALSE, d |-> x, exc |-> ""]
RRaise(x) == [kind |-> "raise", s |-> <<>>, b |-> FALSE, d |-> <<>>, exc |-> x]

\* a method's effect: the parser it leaves, its result, what it printed
Effect(c, r, p) == [config |-> c, ret |-> r, printed |-> p]

Call(name, section, key, value, default, fault) ==
    [name |-> name, section |-> section, key |-> key, value |-> value,
     default |-> default, fault |-> fault]

NoFile == [exists |-> FALSE, text |-> <<>>]
FileOf(text) == [exists |-> TRUE, text |-> text]

----------------------------------------------------------------------------
(* ConfigManager *)

\* a faulty _load_config: the parser that raised is kept, not replaced
load_config_keeping(f) ==
    IF ~f.exists THEN Effect(EmptyConfig, RNone, <<"Configuration loaded from">>)
    ELSE
    LET r == read(f.text) IN
    IF r.raised = "" THEN Effect(r.config, RNone, <<"Configuration loaded from">>)
    ELSE Effect(r.config, RNone, <<"Error loading configuration file">>)

\* ConfigManager._load_config on a fresh parser
load_config(f) ==
    IF ~f.exists THEN Effect(EmptyConfig, RNone, <<"Configuration loaded from">>)
    ELSE
    LET r == read(f.text) IN
    IF r.raised = "" THEN Effect(r.config, RNone, <<"Configuration loaded from">>)
    ELSE Effect(EmptyConfig, RNone, <<"Error loading configuration file">>)

\* ConfigManager.add_key
add_key(c, section, key, value) ==
    LET created == IF has_section(c, section) THEN Ok(c) ELSE add_section(c, section)
        p1 == IF has_section(c, section) THEN <<>> ELSE <<"Created new section">>
    IN
    IF ~created.ok THEN Effect(c, RRaise(created.err), <<>>)
    ELSE
    LET done == set(created.val, section, key, str(value)) IN
    IF ~done.ok THEN Effect(created.val, RRaise(done.err), p1)
    ELSE Effect(done.val, RNone, p1 \o <<"Added/Updated key">>)

\* ConfigManager.get_key
get_key(c, section, key, default) ==
    LET r == get(c, section, key) IN
    IF r.ok THEN Effect(c, RStr(r.val), <<>>)
    ELSE IF r.err \in {"NoSectionError", "NoOptionError"}
    THEN Effect(c, default, <<"Warning: Key not found">>)
    ELSE Effect(c, default, <<"Error getting key">>)

\* ConfigManager.get_section
get_section(c, section) ==
    IF has_section(c, section)
    THEN LET r == items(c, section) IN
         IF r.ok THEN Effect(c, RDict(r.val), <<>>)
         ELSE Effect(c, RRaise(r.err), <<>>)
    ELSE Effect(c, RDict(<<>>), <<"Warning: Section not found">>)

\* ConfigManager.remove_key
remove_key(c, section, key) ==
    IF has_option(c, section, key)
    THEN Effect(remove_option(c, section, key).config, RBool(TRUE), <<"Removed key">>)
    ELSE Effect(c, RBool(FALSE), <<"Warning: Key not found. Cannot remove">>)

\* ConfigManager.remove_section
remove_section(c, section) ==
    IF has_section(c, section)
    THEN Effect(remove_section_(c, section).config, RBool(TRUE), <<"Removed section">>)
    ELSE Effect(c, RBool(FALSE), <<"Warning: Section not found. Cannot remove">>)

\* the text left in the file when the write stops after `n` lines
PartialText(text, n) == Join(SubSeq(SplitLines(text), 1, n), <<>>)

\* a faulty save_config: "saved" is printed after the try block, always
save_config_always_saved(c, f, fault, n) ==
    IF fault \in {"makedirs", "open"}
    THEN [file |-> f, ret |-> RNone,
          printed |-> <<"Error saving configuration file", "Configuration saved to">>]
    ELSE IF fault = "write"
    THEN [file |-> FileOf(PartialText(write(c), n)), ret |-> RNone,
          printed |-> <<"Error saving configuration file", "Configuration saved to">>]
    ELSE [file |-> FileOf(write(c)), ret |-> RNone,
          printed |-> <<"Configuration saved to">>]

\* a faulty save_config: the file is opened for appending
save_config_appending(c, f, fault, n) ==
    IF fault \in {"makedirs", "open"}
    THEN [file |-> f, ret |-> RNone, printed |-> <<"Error saving configuration file">>]
    ELSE IF fault = "write"
    THEN [file |-> FileOf(f.text \o PartialText(write(c), n)), ret |-> RNone,
          printed |-> <<"Error saving configuration file">>]
    ELSE [file |-> FileOf(f.text \o write(c)), ret |-> RNone,
          printed |-> <<"Configuration saved to">>]

\* ConfigManager.save_config: [file, ret, printed].  `fault` is what the
\* file system does: "none", or the step that raises ("makedirs", "open",
\* "write"); a failed write leaves the first `n` lines in the truncated file
save_config(c, f, fault, n) ==
    IF fault \in {"makedirs", "open"}
    THEN [file |-> f, ret |-> RNone, printed |-> <<"Error saving configuration file">>]
    ELSE IF fault = "write"
    THEN [file |-> FileOf(PartialText(write(c), n)), ret |-> RNone,
          printed |-> <<"Error saving configuration file">>]
    ELSE [file |-> FileOf(write(c)), ret |-> RNone,
          printed |-> <<"Configuration saved to">>]

----------------------------------------------------------------------------
(* The callers' inputs and the files found on disk at start *)

Sections == {<<"S">>, <<"s">>, DEFAULTSECT}
Keys == {<<"k">>, <<"K">>, <<"j">>}
Values == {PyInt(30), PyStr(<<"%","%">>), PyStr(<<"a","%">>)}
DefaultArgs == {RStr(<<"D">>)}

\* [DEFAULT] j = a, [S] k = %(j)s
FileWithDefaults ==
    FileOf(<<"[","D","E","F","A","U","L","T","]","\n", "j"," ","="," ","a","\n", "\n",
             "[","S","]","\n", "k"," ","="," ","%","(","j",")","s","\n", "\n">>)
\* [S] k = a, then [S] again
FileDuplicateSection ==
    FileOf(<<"[","S","]","\n", "k","=","a","\n", "[","S","]","\n", "j","=","a","\n">>)
\* [S] k = a, then a line with no delimiter
FileNoDelimiter ==
    FileOf(<<"[","S","]","\n", "k","=","a","\n", "j","\n">>)
\* an option before any section header
FileNoHeader == FileOf(<<"k","=","a","\n">>)

\* [S] k = a, j = a
FileTwoKeys ==
    FileOf(<<"[","S","]","\n", "k"," ","="," ","a","\n", "j"," ","="," ","a","\n", "\n">>)

InitFiles == {NoFile, FileWithDefaults}

\* the inputs of the persistence runs
IOSections == {<<"S">>, <<"T">>}
IOKeys == {<<"k">>}
IOValues == {PyStr(<<"a">>), PyStr(<<" ","a">>)}
Faults == {"none", "makedirs", "open", "write"}
IOInitFiles == {NoFile, FileTwoKeys, FileDuplicateSection, FileNoDelimiter, FileNoHeader}

NotSaved == [valid |-> FALSE, config |-> EmptyConfig]

----------------------------------------------------------------------------
(* The state machine: one manager, constructed on the file, then called.   *)
(* Each action binds the method's effect once, as e.                       *)

Init ==
    /\ file \in InitFiles
    /\ config = load_config(file).config
    /\ ret = load_config(file).ret
    /\ printed = load_config(file).printed
    /\ op = Call("__init__", <<>>, <<>>, PyStr(<<>>), RNone, "none")
    /\ saved = NotSaved

\* ConfigManager(config_file_path) on the same path again
Construct ==
    \E e \in {load_config(file)} :
    /\ config' = e.config
    /\ ret' = e.ret
    /\ printed' = e.printed
    /\ op' = Call("__init__", <<>>, <<>>, PyStr(<<>>), RNone, "none")
    /\ UNCHANGED <<file, saved>>

AddKey(section, key, value) ==
    \E e \in {add_key(config, section, key, value)} :
    /\ config' = e.config
    /\ ret' = e.ret
    /\ printed' = e.printed
    /\ op' = Call("add_key", section, key, value, RNone, "none")
    /\ UNCHANGED <<file, saved>>

GetKey(section, key, default) ==
    \E e \in {get_key(config, section, key, default)} :
    /\ config' = e.config
    /\ ret' = e.ret
    /\ printed' = e.printed
    /\ op' = Call("get_key", section, key, PyStr(<<>>), default, "none")
    /\ UNCHANGED <<file, saved>>

GetSection(section) ==
    \E e \in {get_section(config, section)} :
    /\ config' = e.config
    /\ ret' = e.ret
    /\ printed' = e.printed
    /\ op' = Call("get_section", section, <<>>, PyStr(<<>>), RNone, "none")
    /\ UNCHANGED <<file, saved>>

RemoveKey(section, key) ==
    \E e \in {remove_key(config, section, key)} :
    /\ config' = e.config
    /\ ret' = e.ret
    /\ printed' = e.printed
    /\ op' = Call("remove_key", section, key, PyStr(<<>>), RNone, "none")
    /\ UNCHANGED <<file, saved>>

RemoveSection(section) ==
    \E e \in {remove_section(config, section)} :
    /\ config' = e.config
    /\ ret' = e.ret
    /\ printed' = e.printed
    /\ op' = Call("remove_section", section, <<>>, PyStr(<<>>), RNone, "none")
    /\ UNCHANGED <<file, saved>>

SaveConfig(fault, n) ==
    /\ fault = "write" => n < Len(SplitLines(write(config)))
    /\ fault # "write" => n = 0
    /\ \E e \in {save_config(config, file, fault, n)} :
          /\ file' = e.file
          /\ ret' = e.ret
          /\ printed' = e.printed
    /\ op' = Call("save_config", <<>>, <<>>, PyStr(<<>>), RNone, fault)
    /\ saved' = IF fault = "none" THEN [valid |-> TRUE, config |-> config]
                ELSE IF fault = "write" THEN NotSaved
                ELSE saved
    /\ UNCHANGED config

DoConstruct == Construct
DoAddKey == \E section \in Sections, key \in Keys, value \in Values : AddKey(section, key, value)
DoGetKey == \E section \in Sections, key \in Keys, default \in DefaultArgs : GetKey(section, key, default)
DoGetSection == \E section \in Sections : GetSection(section)
DoRemoveKey == \E section \in Sections, key \in Keys : RemoveKey(section, key)
DoRemoveSection == \E section \in Sections : RemoveSection(section)

Next ==
    \/ DoConstruct
    \/ DoAddKey
    \/ DoGetKey
    \/ DoGetSection
    \/ DoRemoveKey
    \/ DoRemoveSection

Spec == Init /\ [][Next]_vars

----------------------------------------------------------------------------
(* Persistence: the manager saved to and constructed again from the file *)

InitIO ==
    /\ file \in IOInitFiles
    /\ config = load_config(file).config
    /\ ret = load_config(file).ret
    /\ printed = load_config(file).printed
    /\ op = Call("__init__", <<>>, <<>>, PyStr(<<>>), RNone, "none")
    /\ saved = NotSaved

IOAddKey == \E section \in IOSections, key \in IOKeys, value \in IOValues : AddKey(section, key, value)
IORemoveKey == \E section \in IOSections, key \in IOKeys : RemoveKey(section, key)
IORemoveSection == \E section \in IOSections : RemoveSection(section)
DoSaveConfig ==
    \E fault \in Faults, n \in 0..Len(SplitLines(write(config))) : SaveConfig(fault, n)

NextIO ==
    \/ DoConstruct
    \/ IOAddKey
    \/ IORemoveKey
    \/ IORemoveSection
    \/ DoSaveConfig

SpecIO == InitIO /\ [][NextIO]_vars

----------------------------------------------------------------------------
(* Properties *)

\* the options a section itself holds (none when the section is missing)
Own(c, section) == IF has_section(c, section) THEN DictGet(c.sections, section) ELSE <<>>

\* the section exists and itself holds the key (names compared as stored)
Holds(c, section, key) == DictHas(Own(c, section), optionxform(key))

\* C1: after add_key(section, key, value) the call has completed and an
\* immediately following get_key(section, key, default) returns str(value),
\* for every section, key and value.
C1_ReadYourWrite ==
    op.name = "add_key" =>
        /\ ret = RNone
        /\ \A default \in DefaultArgs :
              get_key(config, op.section, op.key, default).ret = RStr(str(op.value))

\* C4: remove_key(section, key) returns True exactly when the section exists
\* and holds the key; then the key is gone (get_key returns the default) and
\* the section still exists; otherwise it returns False and get_section is
\* unchanged.
C4_RemoveKey ==
    [][op'.name = "remove_key" =>
        LET section == op'.section
            key == op'.key
            held == Holds(config, section, key)
        IN
        /\ ret' = RBool(held)
        /\ held => /\ \A default \in DefaultArgs :
                         get_key(config', section, key, default).ret = default
                   /\ has_section(config', section)
        /\ ~held => get_section(config', section).ret = get_section(config, section).ret
    ]_vars

\* C6: get_key(section, key, default) returns the stored string when the
\* section exists and itself holds the key, and default in every other case.
C6_GetKey ==
    op.name = "get_key" =>
        ret = IF Holds(config, op.section, op.key)
              THEN RStr(DictGet(Own(config, op.section), optionxform(op.key)))
              ELSE op.default

\* C7: get_section(section) returns exactly the key-value pairs the section
\* holds, in their order, and an empty mapping for a missing section.
C7_GetSection ==
    op.name = "get_section" => ret = RDict(Own(config, op.section))

\* the sections other than `section`, with their options, in order
Others(c, section) == SelectSeq(c.sections, LAMBDA e : e[1] # section)

\* C9: add_key on a key the section already has changes only that key's
\* value: the sections, the section's keys and their order, every other
\* key's value and every other section stay as they were; a call that
\* repeats the stored value changes nothing that get_section returns.
C9_UpdateInPlace ==
    [][op'.name = "add_key" =>
        LET section == op'.section
            key == optionxform(op'.key)
            before == Own(config, section)
            after == Own(config', section)
        IN
        /\ Holds(config, section, op'.key) =>
              /\ SectionNames(config') = SectionNames(config)
              /\ Others(config', section) = Others(config, section)
              /\ config'.defaults = config.defaults
              /\ DictKeys(after) = DictKeys(before)
              /\ \A i \in 1..Len(before) : before[i][1] # key => after[i] = before[i]
              /\ ret' = RNone => DictGet(after, key) = str(op'.value)
              /\ ret' # RNone => after = before
              /\ DictGet(before, key) = str(op'.value) =>
                    get_section(config', section).ret = get_section(config, section).ret
        /\ (has_section(config, section) /\ DictHas(unify_values(config, section), key)) =>
              DictKeys(unify_values(config', section)) = DictKeys(unify_values(config, section))
    ]_vars

\* C9 witness: an add_key that completed on a key that is not the last of
\* its section (a new key is appended), with a second section present.
C9_Witness ==
    /\ op.name = "add_key"
    /\ ret = RNone
    /\ Len(config.sections) = 2
    /\ Len(Own(config, op.section)) = 2
    /\ Own(config, op.section)[1][1] = optionxform(op.key)

\* C10: remove_section(section) returns True exactly when the section
\* exists; the section and its keys are then gone, every other section keeps
\* its keys, values and order; a missing section leaves the store unchanged;
\* the file is not touched.
C10_RemoveSection ==
    [][op'.name = "remove_section" =>
        LET section == op'.section
            existed == has_section(config, section)
        IN
        /\ ret' = RBool(existed)
        /\ existed =>
              /\ ~has_section(config', section)
              /\ get_section(config', section).ret = RDict(<<>>)
              /\ \A key \in Keys, default \in DefaultArgs :
                    get_key(config', section, key, default).ret = default
              /\ config'.sections = Others(config, section)
              /\ config'.defaults = config.defaults
        /\ ~existed => config' = config
        /\ file' = file
    ]_vars

\* C10 witness: a section was removed and another one, holding two keys, is left.
C10_Witness ==
    /\ op.name = "remove_section"
    /\ ret = RBool(TRUE)
    /\ Len(config.sections) = 1
    /\ Len(config.sections[1][2]) = 2

\* C5 as claimed: key names are case-sensitive: add_key keeps the key under
\* the name the caller gave, and leaves the entry of a name that differs
\* only in letter case as it was.
C5_CaseSensitiveKeys ==
    [][(op'.name = "add_key" /\ ret' = RNone) =>
        /\ DictHas(Own(config', op'.section), op'.key)
        /\ \A k2 \in Keys, default \in DefaultArgs :
              (k2 # op'.key /\ lower(k2) = lower(op'.key)) =>
                  get_key(config', op'.section, k2, default).ret
                      = get_key(config, op'.section, k2, default).ret
    ]_vars

\* C5 amended: key names are folded to lower case: add_key keeps the key
\* under its lower-case name, as the single entry that every spelling of the
\* name reads; section names are case-sensitive: the sections of other names,
\* also names that differ only in case, are left as they were.
C5_CaseFolding ==
    [][(op'.name = "add_key" /\ ret' = RNone) =>
        LET section == op'.section
            after == Own(config', section)
        IN
        /\ has_section(config', section)
        /\ DictHas(after, lower(op'.key))
        /\ \A i \in 1..Len(after) : after[i][1] = lower(after[i][1])
        /\ Cardinality({i \in 1..Len(after) : lower(after[i][1]) = lower(op'.key)}) = 1
        /\ \A k2 \in Keys, default \in DefaultArgs :
              lower(k2) = lower(op'.key) =>
                  get_key(config', section, k2, default).ret
                      = get_key(config', section, op'.key, default).ret
        /\ Others(config', section) = Others(config, section)
    ]_vars

\* C5 witness: key K was added to section s, which holds it as k, beside a
\* section S of other content.
C5_Witness ==
    /\ op.name = "add_key"
    /\ ret = RNone
    /\ op.key = <<"K">>
    /\ op.section = <<"s">>
    /\ DictKeys(Own(config, <<"s">>)) = <<<<"k">>>>
    /\ has_section(config, <<"S">>)
    /\ Own(config, <<"S">>) # Own(config, <<"s">>)

\* C3 as claimed: a save_config that failed returns a result that differs
\* from the result of a successful save, and leaves the parser as it was.
C3_SaveReturnsFailure ==
    [][(op'.name = "save_config" /\ op'.fault # "none") =>
        /\ ret' # save_config(config, file, "none", 0).ret
        /\ config' = config
    ]_vars

\* C3 amended: save_config returns None whether it succeeded or failed; a
\* failure of the directory creation or of the write shows only in the
\* diagnostic printed ("Error saving configuration file" in place of
\* "Configuration saved to"); the parser is left as it was.
C3_SaveFailurePrinted ==
    [][op'.name = "save_config" =>
        /\ ret' = RNone
        /\ op'.fault # "none" => printed' = <<"Error saving configuration file">>
        /\ op'.fault = "none" => printed' = <<"Configuration saved to">>
        /\ config' = config
    ]_vars

\* C3 witness: a write that failed part-way, with a section in memory.
C3_Witness ==
    /\ op.name = "save_config"
    /\ op.fault = "write"
    /\ printed = <<"Error saving configuration file">>
    /\ ret = RNone
    /\ config.sections # <<>>
    /\ file.exists

\* the file cannot be parsed
Unparseable(f) == f.exists /\ read(f.text).raised # ""

\* C8: constructing a manager never raises and never writes the file; on a
\* file that is missing or cannot be parsed the store is completely empty:
\* get_section returns {} and get_key the default, for every name.
C8_ConstructFailSoft ==
    [][op'.name = "__init__" =>
        /\ file' = file
        /\ ret' = RNone
        /\ (~file.exists \/ Unparseable(file)) =>
              /\ config' = EmptyConfig
              /\ \A section \in Sections \cup IOSections :
                    /\ get_section(config', section).ret = RDict(<<>>)
                    /\ \A key \in Keys, default \in DefaultArgs :
                          get_key(config', section, key, default).ret = default
    ]_vars

\* C8 witness: the manager was constructed on a file whose second [S] header
\* stops the parser after it has read a section, and the store is empty.
C8_Witness ==
    /\ op.name = "__init__"
    /\ file.exists
    /\ read(file.text).raised = "DuplicateSectionError"
    /\ read(file.text).config # EmptyConfig
    /\ config = EmptyConfig

\* every get_key result is the same on the two parsers
SameKeys(c1, c2) ==
    \A section \in Sections \cup IOSections, key \in Keys, default \in DefaultArgs \cup {RNone} :
        get_key(c1, section, key, default).ret = get_key(c2, section, key, default).ret

\* C2 as claimed: after a successful save_config, a manager constructed from
\* the same path returns from every get_key what the saved one returned.
C2_RoundTrip ==
    (op.name = "__init__" /\ saved.valid) => SameKeys(config, saved.config)

Alnum == {UpperCase[i] : i \in 1..26} \cup {LowerCase[i] : i \in 1..26}
            \cup {Digits[i] : i \in 1..10}

\* a non-empty string of ASCII letters and digits
PlainStr(x) == x # <<>> /\ \A i \in 1..Len(x) : x[i] \in Alnum

PlainDict(d) == \A i \in 1..Len(d) : PlainStr(d[i][1]) /\ PlainStr(d[i][2])

\* every section name, key and value is a non-empty string of letters and digits
Plain(c) ==
    /\ PlainDict(c.defaults)
    /\ \A i \in 1..Len(c.sections) : PlainStr(c.sections[i][1]) /\ PlainDict(c.sections[i][2])

\* C2 amended: the round trip holds for a store whose section names, keys
\* and values are non-empty strings of ASCII letters and digits.
C2_RoundTripPlain ==
    (op.name = "__init__" /\ saved.valid /\ Plain(saved.config)) =>
        SameKeys(config, saved.config)

\* C2 witness: a manager constructed from the file a store of two sections,
\* one of them with two keys, was saved to.
C2_Witness ==
    /\ op.name = "__init__"
    /\ saved.valid
    /\ Plain(saved.config)
    /\ file = FileOf(write(saved.config))
    /\ Len(saved.config.sections) = 2
    /\ Len(saved.config.sections[1][2]) = 2
    /\ config = saved.config

====
